---- MODULE Spec2Model ----
(***************************************************************************)
(* The OAuth2 authorization-code-with-PKCE demo server of                  *)
(* src/complete_oauth_demo.py: one single-threaded HTTPServer whose        *)
(* request handler FullOAuthHandler keeps its state as attributes on the   *)
(* server object (code_verifier, access_token, id_token).                  *)
(*                                                                         *)
(* Strings are modelled as strings.  Random bytes are opaque terms         *)
(* "r1", "r2", ...; base64url and SHA-256 are injective term constructors  *)
(* over them, so a verifier, its challenge and a state token are distinct  *)
(* values exactly when the real ones are (the CSPRNG never repeats a       *)
(* draw).                                                                  *)
(***************************************************************************)
EXTENDS Integers, Sequences, FiniteSets, Bags, TLC

(* ---------------- bounds of the model ---------------- *)
\* /login requests handled in one run
MaxLogins == 2
\* POSTs to the token endpoint sent in one run
MaxPosts == 2

(* ---------------- configuration (module constants) ---------------- *)
AUTH0_DOMAIN == "dev-a85i5cax3v3cy6l4.us.auth0.com"
CLIENT_ID == "QhgXEVKKNmJzLwQxZeUuxtfqXlf619S5"
REDIRECT_URI == "http://localhost:8091/callback"
SCOPE == "openid profile email"

(* ---------------- values ---------------- *)
\* a query key / JSON key / header that is not there
Absent == "<absent>"
\* a query key given with an empty value (error=)
Blank == ""
\* JSON null, None once json.loads has read it
Null == "<null>"

\* secrets.token_bytes(32): the r-th draw of the process; the CSPRNG never
\* returns the same 32 bytes twice
TokenBytes(r) == "r" \o ToString(r)
\* base64.urlsafe_b64encode(b).decode().rstrip('=')
UrlsafeB64NoPad(b) == "b64(" \o b \o ")"
\* hashlib.sha256(s.encode()).digest()
Sha256(s) == "sha256(" \o s \o ")"
\* code_verifier of handle_login
CodeVerifier(r) == UrlsafeB64NoPad(TokenBytes(r))
\* code_challenge of handle_login
CodeChallenge(verifier) == UrlsafeB64NoPad(Sha256(verifier))
\* secrets.token_urlsafe(32)
TokenUrlsafe(r) == UrlsafeB64NoPad(TokenBytes(r))

(* ---------------- characters, bytes, base64 ---------------- *)
\* A str is a sequence of one-character strings, a bytes object a sequence of
\* numbers 0..255.
Range(seq) == {seq[i] : i \in DOMAIN seq}
\* the alphabet of base64.urlsafe_b64encode, value 0 first
Base64UrlAlphabet ==
  <<"A", "B", "C", "D", "E", "F", "G", "H", "I", "J", "K", "L", "M", "N", "O", "P",
    "Q", "R", "S", "T", "U", "V", "W", "X", "Y", "Z", "a", "b", "c", "d", "e", "f",
    "g", "h", "i", "j", "k", "l", "m", "n", "o", "p", "q", "r", "s", "t", "u", "v",
    "w", "x", "y", "z", "0", "1", "2", "3", "4", "5", "6", "7", "8", "9", "-", "_">>

\* base64.urlsafe_b64encode(b): three bytes give four characters; a rest of
\* one or two bytes is filled up with "="
RECURSIVE UrlsafeB64Encode(_)
UrlsafeB64Encode(b) ==
  LET Char(v) == Base64UrlAlphabet[v + 1] IN
  IF Len(b) = 0 THEN <<>>
  ELSE IF Len(b) = 1
  THEN <<Char(b[1] \div 4), Char((b[1] % 4) * 16), "=", "=">>
  ELSE IF Len(b) = 2
  THEN <<Char(b[1] \div 4), Char((b[1] % 4) * 16 + b[2] \div 16),
         Char((b[2] % 16) * 4), "=">>
  ELSE <<Char(b[1] \div 4), Char((b[1] % 4) * 16 + b[2] \div 16),
         Char((b[2] % 16) * 4 + b[3] \div 64), Char(b[3] % 64)>>
       \o UrlsafeB64Encode(SubSeq(b, 4, Len(b)))

\* a slip: the padding is kept
KeepPad(chars) == chars
\* .rstrip('=')
RECURSIVE RStripPad(_)
RStripPad(chars) ==
  IF chars # <<>> /\ chars[Len(chars)] = "="
  THEN RStripPad(SubSeq(chars, 1, Len(chars) - 1))
  ELSE chars

\* the characters binascii.a2b_base64 takes as data once urlsafe_b64decode has
\* translated "-" to "+" and "_" to "/": the two standard characters are data too
IsBase64Data(c) == c \in Range(Base64UrlAlphabet) \cup {"+", "/"}
Sextet(c) ==
  IF c = "+" THEN 62
  ELSE IF c = "/" THEN 63
  ELSE (CHOOSE i \in 1..Len(Base64UrlAlphabet) : Base64UrlAlphabet[i] = c) - 1

\* binascii.a2b_base64, not strict: a character that is no data is skipped; a
\* "=" counts only from the third place of a group of four on, and the scan
\* stops when the padding completes the group; a group left open at the end
\* is an error.  quad is the place in the group, pads the "=" counted, acc the
\* values read.
RECURSIVE A2bBase64(_, _, _, _)
A2bBase64(chars, quad, pads, acc) ==
  IF chars = <<>> THEN [ok |-> quad = 0, sextets |-> acc]
  ELSE IF Head(chars) = "="
  THEN IF quad >= 2 /\ quad + pads + 1 >= 4
       THEN [ok |-> TRUE, sextets |-> acc]
       ELSE A2bBase64(Tail(chars), quad, IF quad >= 2 THEN pads + 1 ELSE pads, acc)
  ELSE IF ~IsBase64Data(Head(chars))
  THEN A2bBase64(Tail(chars), quad, pads, acc)
  ELSE A2bBase64(Tail(chars), (quad + 1) % 4, 0, Append(acc, Sextet(Head(chars))))

\* the bytes of the values read: four values give three bytes, two values one
\* byte, three values two bytes
RECURSIVE SextetsToBytes(_)
SextetsToBytes(v) ==
  IF Len(v) < 2 THEN <<>>
  ELSE IF Len(v) = 2 THEN <<v[1] * 4 + v[2] \div 16>>
  ELSE IF Len(v) = 3
  THEN <<v[1] * 4 + v[2] \div 16, (v[2] % 16) * 16 + v[3] \div 4>>
  ELSE <<v[1] * 4 + v[2] \div 16, (v[2] % 16) * 16 + v[3] \div 4,
         (v[3] % 4) * 64 + v[4]>>
       \o SextetsToBytes(SubSeq(v, 5, Len(v)))

\* base64.urlsafe_b64decode(s): raises binascii.Error (ok is FALSE) or returns bytes
UrlsafeB64Decode(chars) ==
  LET read == A2bBase64(chars, 0, 0, <<>>)
  IN  [ok |-> read.ok, bytes |-> IF read.ok THEN SextetsToBytes(read.sextets) ELSE <<>>]

(* ---------------- PKCE values of handle_login, character by character ---------------- *)
\* the 32 of secrets.token_bytes(32)
VerifierBytes == 32
\* the length of a SHA-256 digest
DigestBytes == 32
\* hashlib.sha256(code_verifier.encode()).digest(): SHA-256 is not computed;
\* a function of the characters into the strings of DigestBytes bytes stands
\* for it, which is all the encoding of the challenge depends on
RECURSIVE SextetSum(_)
SextetSum(chars) ==
  IF chars = <<>> THEN 0
  ELSE (IF IsBase64Data(Head(chars)) THEN Sextet(Head(chars)) ELSE 64) + SextetSum(Tail(chars))
Sha256Digest(chars) ==
  [i \in 1..DigestBytes |-> (SextetSum(chars) * i + Len(chars) + 7 * i * i) % 256]
\* code_verifier = base64.urlsafe_b64encode(secrets.token_bytes(32)).decode().rstrip('=')
PkceVerifier(random_bytes) == RStripPad(UrlsafeB64Encode(random_bytes))
\* code_challenge = base64.urlsafe_b64encode(
\*     hashlib.sha256(code_verifier.encode()).digest()).decode().rstrip('=')
PkceChallenge(code_verifier) == RStripPad(UrlsafeB64Encode(Sha256Digest(code_verifier)))

(* ---------------- parse_jwt_payload ---------------- *)
\* a Python value handed to parse_jwt_payload: a str with its characters, or a
\* value of another type, of which only the truth value matters
PyStr(chars) == [type |-> "str", truthy |-> chars # <<>>, chars |-> chars]
PyOther(type, truthy) == [type |-> type, truthy |-> truthy, chars |-> <<>>]
\* a value json.loads returns: its Python type and the JSON text it was read from
JsonValue(type, text) == [type |-> type, text |-> text]
\* {}
EmptyDict == JsonValue("dict", <<123, 125>>)

\* jwt_token.split('.')
RECURSIVE SplitDots(_, _)
SplitDots(chars, part) ==
  IF chars = <<>> THEN <<part>>
  ELSE IF Head(chars) = "." THEN <<part>> \o SplitDots(Tail(chars), <<>>)
  ELSE SplitDots(Tail(chars), Append(part, Head(chars)))
\* payload += '=' * (4 - len(payload) % 4): one to four "="
AddPadding(payload) == payload \o [i \in 1..(4 - (Len(payload) % 4)) |-> "="]

\* the JSON texts of the model, in UTF-8, with the type json.loads gives them:
\* {}, {"a":1}, [1], 1, null, ""
JsonTexts ==
  {JsonValue("dict", <<123, 125>>),
   JsonValue("dict", <<123, 34, 97, 34, 58, 49, 125>>),
   JsonValue("list", <<91, 49, 93>>),
   JsonValue("int", <<49>>),
   JsonValue("NoneType", <<110, 117, 108, 108>>),
   JsonValue("str", <<34, 34>>)}
\* json.loads(decoded): raises for every byte string of the model that is
\* none of these texts (empty, cut short, followed by more, or no UTF-8)
JsonLoads(bytes) ==
  IF \E j \in JsonTexts : j.text = bytes
  THEN [raises |-> FALSE, value |-> CHOOSE j \in JsonTexts : j.text = bytes]
  ELSE [raises |-> TRUE, value |-> EmptyDict]

\* parse_jwt_payload(jwt_token): every exception raised inside the try block,
\* the AttributeError of split on a value that is no str included, is caught
\* by the bare except and gives {}
ParseJwtPayload(jwt_token) ==
  IF ~jwt_token.truthy THEN EmptyDict
  ELSE IF jwt_token.type # "str" THEN EmptyDict
  ELSE LET parts == SplitDots(jwt_token.chars, <<>>) IN
       IF Len(parts) # 3 THEN EmptyDict
       ELSE LET decoded == UrlsafeB64Decode(AddPadding(parts[2])) IN
            IF ~decoded.ok THEN EmptyDict
            ELSE LET loaded == JsonLoads(decoded.bytes) IN
                 IF loaded.raises THEN EmptyDict ELSE loaded.value

(* ---------------- attributes of the server object ---------------- *)
\* a Python object's attribute dictionary: a function on the names set so far
NoAttrs == [a \in {} |-> Absent]
HasAttr(obj, a) == a \in DOMAIN obj
\* a slip: an attribute that is set already is kept
SetAttrIfUnset(obj, a, v) ==
  [x \in (DOMAIN obj) \cup {a} |-> IF x \in DOMAIN obj THEN obj[x] ELSE v]
\* a slip: the attributes set before are lost
SetAttrOnly(obj, a, v) == [x \in {a} |-> v]
SetAttr(obj, a, v) == [x \in (DOMAIN obj) \cup {a} |-> IF x = a THEN v ELSE obj[x]]

VARIABLES
  server,    \* attributes set on the HTTPServer object by the handlers
  pc,        \* "idle": serve_forever waits for a request;
             \* "exchanging": handle_callback is blocked in urlopen;
             \* "closed": serve_forever was interrupted, server_close() is done
  answer,    \* what urlopen has got from the token endpoint and not yet returned
             \* to the blocked handler, else NoAnswer
  issued,    \* the 302 redirects of /login so far: verifier generated, Location params
  posts,     \* the POSTs sent to the token endpoint so far, with their outcome:
             \* a bag, one copy per POST sent
  last,      \* the request handled last and the response written for it
  calc       \* a call of one of the functions of the handler taken alone: the
             \* function, its argument, and its result once it has returned

vars == <<server, pc, answer, issued, posts, last, calc>>

(* ---------------- requests ---------------- *)
\* A GET request.  self.path is prefix \o tail \o ("?" \o query when hasQuery);
\* the query of the model carries at most the keys error, code and state, each
\* Absent, Blank (key=) or a value.  authorization is the Authorization header.
NoQuery == [error |-> Absent, code |-> Absent, state |-> Absent]
Request(prefix, tail, hasQuery, query, authorization) ==
  [prefix |-> prefix, tail |-> tail, hasQuery |-> hasQuery, query |-> query,
   authorization |-> authorization]

\* self.path.startswith(p), for the p the handler tests: no prefix of the model
\* is the beginning of another one that is tested with startswith
StartsWith(req, p) == req.prefix = p
\* self.path == p
PathEquals(req, p) == req.prefix = p /\ req.tail = "" /\ ~req.hasQuery

\* do_GET: the handler a request is dispatched to
Route(req) ==
  IF StartsWith(req, "/callback") THEN "handle_callback"
  ELSE IF PathEquals(req, "/") THEN "handle_home"
  ELSE IF PathEquals(req, "/login") THEN "handle_login"
  ELSE IF StartsWith(req, "/api/protected") THEN "handle_protected_api"
  ELSE "send_error_404"

\* urllib.parse.parse_qs(urlparse(self.path).query): blank values are dropped
\* (keep_blank_values is False), so the dict has a key only for a non-empty value
ParseQs(req) ==
  LET q == IF req.hasQuery THEN req.query ELSE NoQuery
      keys == {k \in {"error", "code", "state"} : q[k] # Absent /\ q[k] # Blank}
  IN  [k \in keys |-> q[k]]

\* the response written for a request: the status lines sent so far (none
\* while the handler is blocked) and what the response says
Response(req, statuses, message) ==
  [req |-> req, statuses |-> statuses, message |-> message]
NoRequest == Request("/", "", FALSE, NoQuery, Absent)

(* ---------------- handle_login ---------------- *)
\* a slip: the verifier itself is sent as a "plain" challenge
LoginParamsPlain(code_verifier, state) ==
  [response_type |-> "code",
   client_id |-> CLIENT_ID,
   redirect_uri |-> REDIRECT_URI,
   scope |-> SCOPE,
   code_challenge |-> code_verifier,
   code_challenge_method |-> "plain",
   state |-> state]
\* params of the authorization URL
LoginParams(code_verifier, state) ==
  [response_type |-> "code",
   client_id |-> CLIENT_ID,
   redirect_uri |-> REDIRECT_URI,
   scope |-> SCOPE,
   code_challenge |-> CodeChallenge(code_verifier),
   code_challenge_method |-> "S256",
   state |-> state]

\* auth_url without its query
AuthorizeUrl == "https://" \o AUTH0_DOMAIN \o "/authorize"
\* the state tokens issued by the logins so far
IssuedStates == {issued[i].params.state : i \in 1..Len(issued)}

(* ---------------- exchange_code_for_tokens ---------------- *)
\* token_url
TokenUrl == "https://" \o AUTH0_DOMAIN \o "/oauth/token"
\* a slip: the redirect_uri of the exchange is not the one of the login
ExchangeDataOtherUri(srv, auth_code) ==
  [grant_type |-> "authorization_code",
   client_id |-> CLIENT_ID,
   code |-> auth_code,
   redirect_uri |-> "http://evil-site.com/callback",
   code_verifier |-> srv["code_verifier"]]
\* data of the POST to the token endpoint
ExchangeData(srv, auth_code) ==
  [grant_type |-> "authorization_code",
   client_id |-> CLIENT_ID,
   code |-> auth_code,
   redirect_uri |-> REDIRECT_URI,
   code_verifier |-> srv["code_verifier"]]

\* what urlopen and the provider can do with the POST
Outcome(kind, access_token, id_token) ==
  [kind |-> kind, access_token |-> access_token, id_token |-> id_token]
Outcomes ==
  {Outcome(k, Absent, Absent) : k \in {"http_error", "url_error", "bad_json", "not_object"}}
  \cup {Outcome("object", "AT1", "ID1"), Outcome("object", "AT2", Absent),
        Outcome("object", Absent, "ID1"), Outcome("object", "AT1", Null)}

\* urlopen is still waiting: nothing has come back from the token endpoint
NoAnswer == Outcome("none", Absent, Absent)

\* exchange_code_for_tokens raises: urlopen (HTTPError, URLError), json.loads,
\* or tokens.keys() on a JSON value that is no object
ExchangeRaises(outcome) == outcome.kind # "object"

(* ---------------- handle_callback ---------------- *)
\* a slip: the code is looked up before the error
CallbackCheckCodeFirst(params) ==
  IF "code" \notin DOMAIN params THEN "Missing authorization code"
  ELSE IF "error" \in DOMAIN params THEN "OAuth Error: " \o params["error"]
  ELSE "exchange"
\* the checks on the parsed parameters, in the handler's order
CallbackCheck(params) ==
  IF "error" \in DOMAIN params THEN "OAuth Error: " \o params["error"]
  ELSE IF "code" \notin DOMAIN params THEN "Missing authorization code"
  ELSE "exchange"

\* a slip: the 200 is written before exchange_code_for_tokens is called
SentBeforeExchangeEarly == <<200>>
\* what handle_callback has written when it calls exchange_code_for_tokens
SentBeforeExchange == <<>>

\* a slip: a failed exchange logs the user out
StoreTokensOrClear(srv, outcome) ==
  IF ExchangeRaises(outcome) \/ outcome.access_token = Absent
  THEN [x \in (DOMAIN srv) \ {"access_token", "id_token"} |-> srv[x]]
  ELSE [x \in (DOMAIN srv) \cup {"access_token", "id_token"} |->
          IF x = "access_token" THEN outcome.access_token
          ELSE IF x = "id_token"
               THEN (IF outcome.id_token = Absent THEN "" ELSE outcome.id_token)
               ELSE srv[x]]
\* a slip: the tokens returned are shown and not kept
StoreTokensNothing(srv, outcome) == srv
\* a slip: tokens.get('access_token', '') instead of tokens['access_token']
StoreTokensDefaulted(srv, outcome) ==
  IF ExchangeRaises(outcome)
  THEN srv
  ELSE SetAttr(SetAttr(srv, "access_token",
                       IF outcome.access_token = Absent THEN "" ELSE outcome.access_token),
               "id_token", IF outcome.id_token = Absent THEN "" ELSE outcome.id_token)
\* the try block after the exchange returned: the attributes set on the server
StoreTokens(srv, outcome) ==
  IF ExchangeRaises(outcome) \/ outcome.access_token = Absent
  THEN srv
  ELSE SetAttr(SetAttr(srv, "access_token", outcome.access_token),
               "id_token", IF outcome.id_token = Absent THEN "" ELSE outcome.id_token)

\* a slip: a failed exchange is reported as 502 Bad Gateway
CallbackStatusesBadGateway(outcome) ==
  IF ExchangeRaises(outcome) \/ outcome.access_token = Absent THEN <<502>>
  ELSE <<200>>
\* the status lines the callback writes once the exchange has resolved.  With
\* "id_token": null the page cannot be built: tokens.get('id_token', ...)[:100]
\* raises TypeError after send_response(200), and the except branch writes a
\* second status line with send_error(500).
CallbackStatuses(outcome) ==
  IF ExchangeRaises(outcome) \/ outcome.access_token = Absent THEN <<500>>
  ELSE IF outcome.id_token = Null THEN <<200, 500>>
  ELSE <<200>>

(* ---------------- handle_protected_api ---------------- *)
ProtectedStatusWrongAttr(srv) == IF ~HasAttr(srv, "code_verifier") THEN 401 ELSE 200
ProtectedStatus(srv) == IF ~HasAttr(srv, "access_token") THEN 401 ELSE 200

\* a POST sent to the token endpoint: its form data, the state parameter of the
\* callback that caused it, and how it ended ("pending" while urlopen blocks,
\* "tokens" for a JSON object with access_token, "failed" otherwise, "aborted"
\* when the process was interrupted before urlopen returned)
Post(data, state, result) ==
  [url |-> TokenUrl, data |-> data, state |-> state, result |-> result]
\* the POST the blocked handler waits for
InFlight == CHOOSE p \in BagToSet(posts) : p.result = "pending"

(* ---------------- the state machine ---------------- *)
\* a call of a function that has not returned yet
Call(fn, arg) == [fn |-> fn, arg |-> arg, returned |-> FALSE, result |-> <<>>]
\* the call has returned result
Return(call, result) == [call EXCEPT !.returned = TRUE, !.result = result]
\* no function is looked at alone
NoCall == Call("none", <<>>)
\* a slip: the server object is built with a verifier already set
InitWithVerifier ==
  /\ server = SetAttr(NoAttrs, "code_verifier", "stale")
  /\ pc = "idle"
  /\ answer = NoAnswer
  /\ issued = <<>>
  /\ posts = EmptyBag
  /\ last = Response(NoRequest, <<>>, "no request yet")
  /\ calc = NoCall
\* main: HTTPServer(('localhost', 8091), FullOAuthHandler), nothing handled yet
Init ==
  /\ server = NoAttrs
  /\ pc = "idle"
  /\ answer = NoAnswer
  /\ issued = <<>>
  /\ posts = EmptyBag
  /\ last = Response(NoRequest, <<>>, "no request yet")
  /\ calc = NoCall

\* the values a client can put in the state parameter of a callback
CallbackStateValues == {Absent, "forged"} \cup IssuedStates
\* the callback requests of the model: /callback without a query; a code with
\* every state; an error, with and without a code, and a query with neither,
\* each without a state and with every issued state; a blank error, with and
\* without a code; a blank code; two paths that only begin with /callback
CallbackQuery(error, code, state) == [error |-> error, code |-> code, state |-> state]
CallbackRequests ==
  {Request("/callback", "", FALSE, NoQuery, Absent)}
  \cup {Request("/callback", "", TRUE, CallbackQuery(Absent, "ABC", s), Absent) :
          s \in CallbackStateValues}
  \cup {Request("/callback", "", TRUE, CallbackQuery(e, c, s), Absent) :
          e \in {Absent, "access_denied"}, c \in {Absent, "ABC"},
          s \in {Absent} \cup IssuedStates}
  \cup {Request("/callback", "", TRUE, CallbackQuery(Blank, c, Absent), Absent) :
          c \in {Absent, Blank, "ABC"}}
  \cup {Request("/callback", "x", FALSE, NoQuery, Absent),
        Request("/callback", "x", TRUE, CallbackQuery(Absent, "ABC", Absent), Absent)}

\* the requests of the model that are no callback
OtherRequests ==
  {Request("/", "", FALSE, NoQuery, Absent),
   Request("/login", "", FALSE, NoQuery, Absent),
   Request("/api/protected", "", FALSE, NoQuery, Absent),
   Request("/api/protected", "x", TRUE, NoQuery, "Bearer AT1"),
   Request("/login", "x", FALSE, NoQuery, Absent),
   Request("/favicon.ico", "", FALSE, NoQuery, Absent)}

\* GET / : handle_home
Home ==
  \E req \in OtherRequests :
    /\ pc = "idle"
    /\ Route(req) = "handle_home"
    /\ last' = Response(req, <<200>>,
                        IF HasAttr(server, "access_token")
                        THEN "You are authenticated!" ELSE "Start OAuth Login")
    /\ UNCHANGED <<server, pc, answer, issued, posts, calc>>

\* GET /login : handle_login; its two draws of the CSPRNG are the next two
\* draws of the process
Login ==
  \E req \in OtherRequests :
    LET rv == 2 * Len(issued) + 1
        rs == rv + 1
        code_verifier == CodeVerifier(rv)
        params == LoginParams(code_verifier, TokenUrlsafe(rs))
    IN  /\ pc = "idle"
        /\ Route(req) = "handle_login"
        /\ Len(issued) < MaxLogins
        /\ server' = SetAttr(server, "code_verifier", code_verifier)
        /\ issued' = Append(issued, [verifier |-> code_verifier, url |-> AuthorizeUrl,
                                     params |-> params])
        /\ last' = Response(req, <<302>>, "Location")
        /\ UNCHANGED <<pc, answer, posts, calc>>

\* GET /callback... : handle_callback up to the point where it blocks in urlopen
Callback ==
  \E req \in CallbackRequests :
    LET params == ParseQs(req)
        check == CallbackCheck(params)
    IN  /\ pc = "idle"
        /\ Route(req) = "handle_callback"
        /\ IF check # "exchange"
           THEN \* send_error(400, ...); return
                /\ last' = Response(req, <<400>>, check)
                /\ UNCHANGED <<server, pc, answer, issued, posts, calc>>
           ELSE IF ~HasAttr(server, "code_verifier")
           THEN \* building data raises AttributeError: caught, send_error(500, ...)
                /\ last' = Response(req, <<500>>, "Token exchange failed")
                /\ UNCHANGED <<server, pc, answer, issued, posts, calc>>
           ELSE \* the POST is sent; the handler waits for the answer
                /\ BagCardinality(posts) < MaxPosts
                /\ posts' = posts (+) SetToBag({Post(ExchangeData(server, params["code"]),
                                                     req.query.state, "pending")})
                /\ pc' = "exchanging"
                /\ last' = Response(req, SentBeforeExchange, "waiting for the token endpoint")
                /\ UNCHANGED <<server, answer, issued, calc>>

\* the token endpoint answers, or the connection fails: urlopen has its result
ProviderAnswers ==
  \E outcome \in Outcomes :
    /\ pc = "exchanging"
    /\ answer = NoAnswer
    /\ answer' = outcome
    /\ UNCHANGED <<server, pc, issued, posts, last, calc>>

\* urlopen returns or raises: the rest of handle_callback
ExchangeResolve ==
  LET outcome == answer
      ok == ~ExchangeRaises(outcome) /\ outcome.access_token # Absent
      done == [InFlight EXCEPT !.result = IF ok THEN "tokens" ELSE "failed"]
  IN  /\ pc = "exchanging"
      /\ answer # NoAnswer
      /\ server' = StoreTokens(server, outcome)
      /\ posts' = (posts (-) SetToBag({InFlight})) (+) SetToBag({done})
      /\ last' = Response(last.req, CallbackStatuses(outcome),
                          IF CallbackStatuses(outcome) = <<200>>
                          THEN "OAuth Success! Access Token: " \o outcome.access_token
                          ELSE "Token exchange failed")
      /\ pc' = "idle"
      /\ answer' = NoAnswer
      /\ UNCHANGED <<issued, calc>>

\* GET /api/protected... : handle_protected_api
ProtectedApi ==
  \E req \in OtherRequests :
    /\ pc = "idle"
    /\ Route(req) = "handle_protected_api"
    /\ last' = Response(req, <<ProtectedStatus(server)>>,
                        IF ProtectedStatus(server) = 401
                        THEN "401 Unauthorized" ELSE "Protected API Success")
    /\ UNCHANGED <<server, pc, answer, issued, posts, calc>>

\* any other path: send_error(404)
NotFound ==
  \E req \in OtherRequests :
    /\ pc = "idle"
    /\ Route(req) = "send_error_404"
    /\ last' = Response(req, <<404>>, "Not Found")
    /\ UNCHANGED <<server, pc, answer, issued, posts, calc>>

\* Ctrl-C: KeyboardInterrupt is raised in the main thread, wherever it is.  It is
\* no Exception, so the try block of a handler blocked in urlopen does not catch
\* it: it leaves serve_forever, and main's finally runs server_close().
Shutdown ==
  /\ pc # "closed"
  /\ pc' = "closed"
  /\ answer' = NoAnswer
  /\ IF pc = "exchanging"
     THEN /\ posts' = (posts (-) SetToBag({InFlight}))
                         (+) SetToBag({[InFlight EXCEPT !.result = "aborted"]})
          /\ last' = Response(last.req, <<>>, "interrupted")
     ELSE UNCHANGED <<posts, last>>
  /\ UNCHANGED <<server, issued, calc>>

Next ==
  \/ Home \/ Login \/ Callback \/ ProviderAnswers \/ ExchangeResolve
  \/ ProtectedApi \/ NotFound \/ Shutdown

Spec == Init /\ [][Next]_vars

\* Once urlopen has its result the blocked handler goes on: the handler thread
\* is never starved.  Nothing makes a client send a request, the token endpoint
\* answer, or the user press Ctrl-C.
FairSpec == Spec /\ WF_vars(ExchangeResolve)

(* ---------------- the functions taken alone ---------------- *)
\* seeds of the 32-byte strings the generator is run on
MaxSeed == 31
\* 32 bytes for a seed: all 255 for seed 0, mixed values for the others
SecretBytes(seed) == [i \in 1..VerifierBytes |-> (255 + seed * i * 37) % 256]

\* middle segments of the tokens the decoder is run on: the base64url of {},
\* of {"a":1} without and with its padding, of [1], 1, null and "", of "{}1";
\* a single character; {"a":1} with four and with one character that is no
\* base64; an empty segment; a byte that is no UTF-8, URL-safe and standard
PayloadSegments ==
  {<<"e", "3", "0">>,
   <<"e", "y", "J", "h", "I", "j", "o", "x", "f", "Q">>,
   <<"e", "y", "J", "h", "I", "j", "o", "x", "f", "Q", "=", "=">>,
   <<"W", "z", "F", "d">>,
   <<"M", "Q">>,
   <<"b", "n", "V", "s", "b", "A">>,
   <<"I", "i", "I">>,
   <<"e", "3", "0", "x">>,
   <<"e">>,
   <<"e", "y", "J", "h", "*", "*", "*", "*", "I", "j", "o", "x", "f", "Q">>,
   <<"e", "y", "J", "h", "*", "I", "j", "o", "x", "f", "Q">>,
   <<>>,
   <<"_", "w">>,
   <<"/", "w">>}
\* a token of three segments
Token3(header, payload, signature) ==
  PyStr(header \o <<".">> \o payload \o <<".">> \o signature)
\* the tokens the decoder is run on: three segments, with and without header
\* and signature; one, two and four segments; the empty string; values that
\* are no str (None, 0, a number, a dict)
JwtTokens ==
  {Token3(h, m, g) : h \in {<<>>, <<"h">>}, m \in PayloadSegments, g \in {<<>>, <<"s">>}}
  \cup {PyStr(<<>>), PyStr(<<"e", "y", "J", "h", "I", "j", "o", "x", "f", "Q">>), PyStr(<<"h", ".", "e", "y", "J", "h", "I", "j", "o", "x", "f", "Q">>),
        PyStr(<<"h", ".", "e", "y", "J", "h", "I", "j", "o", "x", "f", "Q", ".", "s", ".", "x">>),
        PyOther("NoneType", FALSE), PyOther("int", FALSE), PyOther("int", TRUE),
        PyOther("dict", TRUE)}

\* a call of parse_jwt_payload or of the first lines of handle_login is about
\* to be made; the server itself is as built
PureInit ==
  /\ server = NoAttrs
  /\ pc = "idle"
  /\ answer = NoAnswer
  /\ issued = <<>>
  /\ posts = EmptyBag
  /\ last = Response(NoRequest, <<>>, "no request yet")
  /\ calc \in {Call("parse_jwt_payload", t) : t \in JwtTokens}
              \cup {Call("handle_login", SecretBytes(seed)) : seed \in 0..MaxSeed}

\* parse_jwt_payload(jwt_token) returns
ParseJwt ==
  /\ calc.fn = "parse_jwt_payload" /\ ~calc.returned
  /\ calc' = Return(calc, ParseJwtPayload(calc.arg))
  /\ UNCHANGED <<server, pc, answer, issued, posts, last>>

\* the first two statements of handle_login, on the bytes drawn
GeneratePkce ==
  /\ calc.fn = "handle_login" /\ ~calc.returned
  /\ calc' = Return(calc, [code_verifier |-> PkceVerifier(calc.arg),
                           code_challenge |-> PkceChallenge(PkceVerifier(calc.arg))])
  /\ UNCHANGED <<server, pc, answer, issued, posts, last>>

PureNext == ParseJwt \/ GeneratePkce

PureSpec == PureInit /\ [][PureNext]_vars

TypeOK ==
  /\ pc \in {"idle", "exchanging", "closed"}
  /\ answer \in Outcomes \cup {NoAnswer}
  /\ (answer # NoAnswer) => pc = "exchanging"
  /\ DOMAIN server \subseteq {"code_verifier", "access_token", "id_token"}
  /\ Len(issued) <= MaxLogins
  /\ BagCardinality(posts) <= MaxPosts
  /\ (pc = "exchanging") <=> (\E p \in BagToSet(posts) : p.result = "pending")
  /\ calc = NoCall

(* ---------------- vocabulary of the properties ---------------- *)
\* the POSTs sent so far that satisfy P, counted with their multiplicity
PostsCount(P(_)) ==
  BagCardinality([p \in {q \in BagToSet(posts) : P(q)} |-> posts[p]])
\* the flow of a login is known by the state token of its redirect; the code keeps
\* no FlowSession, so a flow is still open for an exchange exactly while the
\* verifier of its login is the one held on the server
FlowVerifiers(state) ==
  {issued[i].verifier : i \in {j \in 1..Len(issued) : issued[j].params.state = state}}
FlowOpen(state) ==
  HasAttr(server, "code_verifier") /\ server["code_verifier"] \in FlowVerifiers(state)
\* the request handled last was dispatched to handle_callback and has been answered
CallbackAnswered ==
  /\ last.message # "no request yet"
  /\ Route(last.req) = "handle_callback"
  /\ pc = "idle"
\* a query parameter given with a non-empty value
Given(v) == v # Absent /\ v # Blank

(* ---------------- C1 ---------------- *)
\* C1: a callback with a code whose state is absent or matches no issued flow
\* that is still untouched never reaches the token endpoint: every POST sent
\* was caused by a callback carrying the state of an issued login, and no
\* state caused more than one POST.
C1_ExchangeOnlyForMatchingState ==
  \A p \in BagToSet(posts) :
    /\ p.state \in IssuedStates
    /\ LET SameState(q) == q.state = p.state IN PostsCount(SameState) = 1

(* ---------------- C2 ---------------- *)
\* C2: the code_verifier of a POST caused by a callback of flow S (the callback
\* carries the state issued by login S) is the verifier generated by login S.
C2_VerifierOfTheFlow ==
  \A p \in BagToSet(posts) : \A i \in 1..Len(issued) :
    issued[i].params.state = p.state => p.data.code_verifier = issued[i].verifier

(* ---------------- C3 ---------------- *)
\* C3: single use: no verifier generated by a login is sent to the token
\* endpoint more than once, whatever the outcome of the first exchange.
C3_SingleUse ==
  \A i \in 1..Len(issued) :
    LET WithVerifier(q) == q.data.code_verifier = issued[i].verifier
    IN  PostsCount(WithVerifier) <= 1

(* ---------------- C4 ---------------- *)
\* C4: once the exchange of a flow has returned tokens, replaying its callback
\* (same code, same state) sends nothing: the POSTs with that code and state
\* stay at one.
C4_ReplayIsIdempotent ==
  \A p \in BagToSet(posts) :
    (p.result = "tokens" /\ p.state \in IssuedStates) =>
      LET Same(q) == q.data.code = p.data.code /\ q.state = p.state
      IN  PostsCount(Same) = 1

(* ---------------- C5 ---------------- *)
\* C5: the server holds an access_token only if some POST to the token
\* endpoint was answered by a JSON object containing access_token.
C5_TokenOnlyAfterSuccess ==
  HasAttr(server, "access_token") =>
    \E p \in BagToSet(posts) : p.result = "tokens"
\* a token is held, after one exchange that failed and one that succeeded
C5_Witness ==
  /\ HasAttr(server, "access_token")
  /\ \E p \in BagToSet(posts) : p.result = "tokens"
  /\ \E p \in BagToSet(posts) : p.result = "failed"

C7_VerifierNotInAuthorizationRequest ==
  /\ \A i \in 1..Len(issued) :
       /\ "code_verifier" \notin DOMAIN issued[i].params
       /\ \A k \in DOMAIN issued[i].params : issued[i].params[k] # issued[i].verifier
       /\ issued[i].params.code_challenge = CodeChallenge(issued[i].verifier)
  /\ \A p \in BagToSet(posts) :
       \E i \in 1..Len(issued) : p.data.code_verifier = issued[i].verifier
\* a login has redirected and its verifier has been sent in a POST
C7_Witness ==
  /\ Len(issued) >= 1
  /\ \E p \in BagToSet(posts) : p.data.code_verifier = issued[1].verifier

(* ---------------- C8 ---------------- *)
\* what C8 says of the callback handled in a step, for a given reading of
\* "carries an error" and "carries a code"
ChecksInOrder(HasError(_), HasCode(_)) ==
  (pc = "idle" /\ pc' # "closed" /\ Route(last'.req) = "handle_callback") =>
       LET q == IF last'.req.hasQuery THEN last'.req.query ELSE NoQuery
       IN  /\ HasError(q) =>
                /\ last'.statuses = <<400>>
                /\ last'.message = "OAuth Error: " \o q.error
                /\ posts' = posts /\ pc' = "idle"
           /\ (~HasError(q) /\ ~HasCode(q)) =>
                /\ last'.statuses = <<400>>
                /\ last'.message = "Missing authorization code"
                /\ posts' = posts /\ pc' = "idle"
ErrorGiven(q) == Given(q.error)
CodeGiven(q) == Given(q.code)
ErrorPresent(q) == q.error # Absent
CodePresent(q) == q.code # Absent
C9_ProtocolErrorIsTerminal ==
  (CallbackAnswered /\ last.statuses = <<400>> /\ last.req.query.state \in IssuedStates)
    => ~FlowOpen(last.req.query.state)

(* ---------------- C10 ---------------- *)
\* C10: after exactly one login and a callback error=access_denied for it, with
\* no exchange attempted, the flow is closed, no access_token is held and the
\* protected check answers 401.
C10_EndToEndFailure ==
  (/\ CallbackAnswered
   /\ Len(issued) = 1 /\ posts = EmptyBag
   /\ last.req.hasQuery /\ last.req.query.error = "access_denied")
    => /\ \A s \in IssuedStates : ~FlowOpen(s)
       /\ ~HasAttr(server, "access_token")
       /\ ProtectedStatus(server) = 401

\* the verifier v is the one the server object srv holds for an exchange
VerifierHeld(srv, v) == HasAttr(srv, "code_verifier") /\ srv["code_verifier"] = v

(* ---------------- C11 ---------------- *)
\* C11: after exactly one login, one callback with a code and the state of that
\* login, and an exchange answered with access_token AT1, the server holds AT1,
\* the protected check answers 200 and the flow is finished (Exchanged): it is
\* no longer open for an exchange.
C11_EndToEndSuccess ==
  (/\ CallbackAnswered
   /\ Len(issued) = 1 /\ BagCardinality(posts) = 1
   /\ last.req.hasQuery /\ last.req.query.code = "ABC"
   /\ last.req.query.state = issued[1].params.state
   /\ last.message = "OAuth Success! Access Token: AT1")
    => /\ HasAttr(server, "access_token") /\ server["access_token"] = "AT1"
       /\ ProtectedStatus(server) = 200
       /\ \E p \in BagToSet(posts) : p.result = "tokens"
       /\ ~FlowOpen(issued[1].params.state)

C13_FailedExchange ==
  [][(/\ pc = "exchanging" /\ pc' = "idle"
      /\ (ExchangeRaises(answer) \/ answer.access_token = Absent))
       => /\ last'.statuses = <<500>>
          /\ \A a \in {"access_token", "id_token"} :
               /\ HasAttr(server', a) = HasAttr(server, a)
               /\ HasAttr(server, a) => server'[a] = server[a]
          /\ \E p \in BagToSet(posts') :
               p.result = "failed" /\ p.data = InFlight.data
          /\ ~VerifierHeld(server', InFlight.data.code_verifier)]_vars

(* ---------------- C14 ---------------- *)
\* C14: every exchange resolves, even when the token endpoint never answers:
\* whenever the handler waits in urlopen, it later waits no more (the exchange
\* has resolved, or the process was told to stop).
C14_ExchangeResolves == (pc = "exchanging") ~> (pc # "exchanging")

(* ---------------- C15 ---------------- *)
\* C15: no retry: after an exchange failed, the code it sent is not sent to the
\* token endpoint again: the POSTs carrying the code and the verifier of a
\* failed POST stay at one.
C15_NoRetry ==
  \A p \in BagToSet(posts) :
    p.result = "failed" =>
      LET SameCode(q) == q.data.code = p.data.code
                           /\ q.data.code_verifier = p.data.code_verifier
      IN  PostsCount(SameCode) = 1

(* ---------------- C16 ---------------- *)
\* C16: a flow whose exchange has ended, with tokens or failed, is evicted: the
\* verifier it sent is no longer held for an exchange.
C16_FinishedFlowEvicted ==
  \A p \in BagToSet(posts) :
    p.result \in {"tokens", "failed"} => ~VerifierHeld(server, p.data.code_verifier)

(* ---------------- C17 ---------------- *)
\* C17: every flow whose redirect has been issued and whose verifier has not
\* been sent to the token endpoint is registered (Initiated): the verifier whose
\* challenge is in its redirect is held for an exchange.
C17_IssuedFlowRegistered ==
  \A i \in 1..Len(issued) :
    LET WithVerifier(q) == q.data.code_verifier = issued[i].verifier
    IN  (/\ issued[i].params.code_challenge = CodeChallenge(issued[i].verifier)
         /\ PostsCount(WithVerifier) = 0)
          => VerifierHeld(server, issued[i].verifier)

(* ---------------- C18 ---------------- *)
\* C18: of the callbacks that carry the state of one flow, exactly one starts
\* an exchange: a callback that starts an exchange for an issued state finds no
\* POST already caused by a callback with that state.
C18_OneExchangePerState ==
  [][(/\ pc = "idle" /\ pc' = "exchanging"
      /\ InFlight'.state \in IssuedStates)
       => \A p \in BagToSet(posts) : p.state # InFlight'.state]_vars

(* ---------------- C19 ---------------- *)
\* C19: while the exchange of one flow is outstanding, a new login is still
\* accepted and handled.
C19_LoginDuringExchange ==
  (pc = "exchanging" /\ Len(issued) < MaxLogins) => ENABLED Login

(* ---------------- C20 ---------------- *)
\* C20: the listener stops only on the external command, and gracefully: the
\* port is released only when no exchange is in flight.
C20_GracefulShutdown ==
  [][(pc # "closed" /\ pc' = "closed") => pc = "idle"]_vars

\* the path of the request is exactly p, with or without a query string
ExactPath(req, p) == req.prefix = p /\ req.tail = ""

(* ---------------- C21 ---------------- *)
\* C21: only a request on exactly /callback (with or without a query string)
\* is treated as a callback: a request on any other path, also one that only
\* begins with /callback, is answered by another handler or with 404, and
\* triggers no exchange.
C21_ExactCallbackPath ==
  (last.message # "no request yet" /\ ~ExactPath(last.req, "/callback"))
    => /\ pc # "exchanging"
       /\ last.message \in {"Start OAuth Login", "You are authenticated!", "Location",
                            "401 Unauthorized", "Protected API Success", "Not Found"}

(* ---------------- C23 ---------------- *)
\* C23: the status of a response follows from the outcome: /login is answered
\* 302; a callback with a provider error or without a code 400; the protected
\* resource without a token 401; a callback whose exchange returned tokens
\* 200 (the status line of the response is the first one written); a callback
\* whose exchange failed 500.
C23_StatusByOutcome ==
  [][LET req == last'.req
         q == IF req.hasQuery THEN req.query ELSE NoQuery
         handled == pc = "idle" /\ pc' # "closed"
     IN  /\ (handled /\ PathEquals(req, "/login")) => last'.statuses = <<302>>
         /\ (handled /\ ExactPath(req, "/callback") /\ (Given(q.error) \/ ~Given(q.code)))
              => last'.statuses = <<400>>
         /\ (handled /\ ExactPath(req, "/api/protected") /\ ~HasAttr(server, "access_token"))
              => last'.statuses = <<401>>
         /\ (pc = "exchanging" /\ pc' = "idle")
              => IF answer.kind = "object" /\ answer.access_token # Absent
                 THEN Head(last'.statuses) = 200
                 ELSE last'.statuses = <<500>>]_vars
\* a callback has been answered 500 for a failed exchange after another one was
\* answered 200, and a login 302 before them
C23_Witness ==
  /\ CallbackAnswered /\ last.statuses = <<500>>
  /\ \E p \in BagToSet(posts) : p.result = "failed"
  /\ \E p \in BagToSet(posts) : p.result = "tokens"
  /\ Len(issued) >= 1

(* ---------------- C25 ---------------- *)
\* C25: the tokens are stored before the exchange of a flow counts as done: in
\* every state in which a POST is recorded as answered with tokens (the flow is
\* Exchanged), the server holds an access_token.
C25_TokensStoredWhenExchanged ==
  (\E p \in BagToSet(posts) : p.result = "tokens") => HasAttr(server, "access_token")
\* the callback of an issued flow has just been answered 200 and its POST is
\* recorded as answered with tokens
C25_Witness ==
  /\ CallbackAnswered /\ last.statuses = <<200>>
  /\ last.req.query.state \in IssuedStates
  /\ \E p \in BagToSet(posts) : p.result = "tokens" /\ p.state = last.req.query.state
  /\ HasAttr(server, "access_token") /\ server["access_token"] = "AT2"

(* ---------------- C26 ---------------- *)
\* C26: a callback that passes the checks is answered only once the exchange
\* has resolved: while the exchange is outstanding nothing has been written
\* for it, and a 200 is written for a callback only when the exchange has
\* returned tokens and they are stored.
C26_ResponseAfterExchange ==
  /\ (pc = "exchanging") => last.statuses = <<>>
  /\ (/\ last.message # "no request yet"
      /\ last.req.prefix = "/callback"
      /\ \E i \in DOMAIN last.statuses : last.statuses[i] = 200)
       => /\ pc # "exchanging"
          /\ HasAttr(server, "access_token")
          /\ \E p \in BagToSet(posts) : p.result = "tokens"
\* the token endpoint has answered with tokens, the handler has not gone on
\* yet, and nothing has been written for the callback
C26_Witness ==
  /\ pc = "exchanging"
  /\ answer.kind = "object" /\ answer.access_token = "AT1"
  /\ last.req.prefix = "/callback" /\ last.statuses = <<>>

(* ---------------- C27 ---------------- *)
\* C27: one verifier slot, overwritten by every /login: the verifier of a POST
\* is the one generated by the /login handled last before the callback that
\* sends it, whichever login's redirect the callback comes from.
C27_VerifierOfLastLogin ==
  (pc = "exchanging") =>
    /\ Len(issued) >= 1
    /\ InFlight.data.code_verifier = issued[Len(issued)].verifier
\* the callback of the first of two logins is being exchanged with the
\* verifier of the second
C27_Witness ==
  /\ pc = "exchanging" /\ Len(issued) = 2
  /\ InFlight.state = issued[1].params.state
  /\ InFlight.data.code_verifier = issued[2].verifier
  /\ issued[2].verifier # issued[1].verifier

(* ---------------- C28 ---------------- *)
\* C28: the stored access token is monotonic: once set, no step removes it, and
\* only an exchange that returns tokens changes it; the protected check stays
\* Authorized.
C28_TokenMonotonic ==
  [][HasAttr(server, "access_token") =>
       /\ HasAttr(server', "access_token")
       /\ ProtectedStatus(server') = 200
       /\ (server'["access_token"] # server["access_token"]) =>
            /\ pc = "exchanging" /\ pc' = "idle"
            /\ answer.kind = "object" /\ answer.access_token = server'["access_token"]]_vars
\* a token is still held after a later login, a callback answered 400 and a
\* failed exchange
C28_Witness ==
  /\ HasAttr(server, "access_token")
  /\ Len(issued) = 2
  /\ CallbackAnswered /\ last.statuses = <<400>>
  /\ \E p \in BagToSet(posts) : p.result = "failed"

(* ---------------- C29 ---------------- *)
\* C29: before any /login has been handled no verifier is stored, and a
\* callback that carries a code is answered 500, sends no POST to the token
\* endpoint and stores no token.
C29_CallbackBeforeLogin ==
  (Len(issued) = 0) =>
    /\ ~HasAttr(server, "code_verifier")
    /\ posts = EmptyBag
    /\ ~HasAttr(server, "access_token") /\ ~HasAttr(server, "id_token")
    /\ (/\ CallbackAnswered
        /\ last.req.hasQuery
        /\ Given(last.req.query.code) /\ ~Given(last.req.query.error))
         => last.statuses = <<500>>
\* a callback with a code has been answered 500 before any login
C29_Witness ==
  /\ Len(issued) = 0
  /\ CallbackAnswered
  /\ last.req.hasQuery /\ last.req.query.code = "ABC" /\ ~Given(last.req.query.error)
  /\ last.statuses = <<500>>
  /\ posts = EmptyBag

(* ---------------- C30 ---------------- *)
\* C30: frame of the handlers: a request to /, to /api/protected or to an
\* unknown path, and a callback rejected with 400, leave code_verifier,
\* access_token and id_token as they are; /login changes code_verifier only.
C30_HandlerFrame ==
  [][(pc = "idle" /\ pc' = "idle") =>
       LET req == last'.req IN
       /\ (\/ PathEquals(req, "/")
           \/ req.prefix = "/api/protected"
           \/ last'.statuses = <<404>>
           \/ (req.prefix = "/callback" /\ last'.statuses = <<400>>))
            => server' = server
       /\ PathEquals(req, "/login") =>
            \A a \in {"access_token", "id_token"} :
              /\ HasAttr(server', a) = HasAttr(server, a)
              /\ HasAttr(server, a) => server'[a] = server[a]]_vars
\* a second /login has been handled while tokens were held: the verifier is
\* the new one and the tokens are still there
C30_Witness ==
  /\ pc = "idle" /\ last.statuses = <<302>> /\ Len(issued) = 2
  /\ HasAttr(server, "access_token") /\ HasAttr(server, "id_token")
  /\ server["code_verifier"] = issued[2].verifier

(* ---------------- C22 ---------------- *)
\* a segment is base64url once padded with "=" to a multiple of four: only
\* characters of the URL-safe alphabet, and not one character more than a
\* multiple of four
ValidBase64Url(segment) ==
  LET data == RStripPad(segment)
  IN  Range(data) \subseteq Range(Base64UrlAlphabet) /\ Len(data) % 4 # 1
\* C22: the decoder always returns a mapping: {} when the token has not
\* exactly three segments, when the middle one is no base64url or when its
\* bytes are no JSON, and the decoded payload otherwise.
C22_DecoderTotalMapping ==
  (calc.fn = "parse_jwt_payload" /\ calc.returned) =>
    LET parts == IF calc.arg.type = "str" THEN SplitDots(calc.arg.chars, <<>>) ELSE <<>>
        decoded == UrlsafeB64Decode(AddPadding(parts[2]))
        wellFormed == /\ Len(parts) = 3
                      /\ ValidBase64Url(parts[2])
                      /\ decoded.ok /\ ~JsonLoads(decoded.bytes).raises
    IN  /\ calc.result.type = "dict"
        /\ ~wellFormed => calc.result = EmptyDict
        /\ wellFormed => calc.result = JsonLoads(decoded.bytes).value

(* ---------------- C24 ---------------- *)
\* the unreserved characters of RFC 7636: ALPHA / DIGIT / "-" / "." / "_" / "~"
Unreserved ==
  {"A", "B", "C", "D", "E", "F", "G", "H", "I", "J", "K", "L", "M",
   "N", "O", "P", "Q", "R", "S", "T", "U", "V", "W", "X", "Y", "Z",
   "a", "b", "c", "d", "e", "f", "g", "h", "i", "j", "k", "l", "m",
   "n", "o", "p", "q", "r", "s", "t", "u", "v", "w", "x", "y", "z",
   "0", "1", "2", "3", "4", "5", "6", "7", "8", "9",
   "-", ".", "_", "~"}
\* C24: the verifier is the unpadded base64url of the 32 random bytes: 43
\* characters, all of them unreserved, which decode to those bytes once the
\* padding is put back; the challenge is the unpadded base64url of the SHA-256
\* digest of the verifier.
C24_VerifierWellFormed ==
  (calc.fn = "handle_login" /\ calc.returned) =>
    LET verifier == calc.result.code_verifier
        challenge == calc.result.code_challenge
    IN  /\ Len(calc.arg) = 32
        /\ Len(verifier) = 43 /\ Len(verifier) \in 43..128
        /\ Range(verifier) \subseteq Unreserved
        /\ UrlsafeB64Decode(AddPadding(verifier)) = [ok |-> TRUE, bytes |-> calc.arg]
        /\ Range(challenge) \subseteq Unreserved
        /\ UrlsafeB64Decode(AddPadding(challenge))
             = [ok |-> TRUE, bytes |-> Sha256Digest(verifier)]
\* the generator has returned for 32 bytes that are not all the same
C24_Witness ==
  /\ calc.fn = "handle_login" /\ calc.returned
  /\ calc.arg[1] # calc.arg[2]
  /\ Len(calc.result.code_verifier) = 43
  /\ calc.result.code_challenge # calc.result.code_verifier

====
